---- MODULE Spec2Model ----
(***************************************************************************)
(* Model of vrp_streamlit.py: the Streamlit session state (all_orders,    *)
(* vehicle_pool, delivery_log), the sidebar parameters, the wall clock    *)
(* and the ten-step simulation loop started by the "Start Simulation"     *)
(* button.                                                                 *)
(*                                                                         *)
(* Time is counted in whole seconds since the session was created.        *)
(* Locations are points on a line through the depot, in whole kilometres  *)
(* east (+) or west (-) of it, so that geodesic distance is |a - b|.      *)
(* Identifiers "V<n>" and "O<n>" are represented by the number n.          *)
(***************************************************************************)
EXTENDS Integers, Sequences, FiniteSets, TLC

\* ---------------------------------------------------------------- bounds
\* Cap on the number of orders ever appended to all_orders in one session.
MaxPending == 4

\* ------------------------------------------------------ program constants
DEPOT_LOCATION == 0
MaxVol == 100
MaxWeight == 200
MaxTrips == 3
NumSteps == 10
UrgentWait == 30
StandardWait == 60
SecondsPerMinute == 60

\* ------------------------------------------------------------ input sets
\* The smallest and the largest size generate_random_order draws.
Small == [volume |-> 10, weight |-> 5]
Large == [volume |-> 30, weight |-> 20]
\* Sidebar settings (each value inside the range its number_input accepts).
SidebarChoices ==
    {[num_vehicles |-> 1, vehicle_speed |-> 3600, max_orders_per_vehicle |-> 4,
      initial_orders |-> 2, sim_speed |-> 1],
     [num_vehicles |-> 2, vehicle_speed |-> 3600, max_orders_per_vehicle |-> 1,
      initial_orders |-> 2, sim_speed |-> 1],
     [num_vehicles |-> 2, vehicle_speed |-> 10, max_orders_per_vehicle |-> 2,
      initial_orders |-> 2, sim_speed |-> 1]}
\* Random draws of generate_random_order: <<location, size, priority>>.
OrderDraws == {<<-2, Large, 2>>, <<3, Small, 1>>}
\* Seconds the user lets pass between two runs of the script.
IdleGaps == {1200}

VARIABLES
    now,                    \* the wall clock, datetime.now()
    num_vehicles, vehicle_speed, max_orders_per_vehicle, initial_orders,
    sim_speed,              \* the sidebar
    all_orders,             \* st.session_state.all_orders
    vehicle_pool,           \* st.session_state.vehicle_pool
    delivery_log,           \* st.session_state.delivery_log
    pc,                     \* "idle": no script runs; "rested": idle, and time
                            \* has passed; "running": in the loop of line 114
    step,                   \* loop variable of line 114 (steps completed)
    order_id,               \* local of line 113
    assignments,            \* local of line 126, as left by the last step
    route                   \* per vehicle, orders_assigned of its last commit

vars == <<now, num_vehicles, vehicle_speed, max_orders_per_vehicle,
          initial_orders, sim_speed, all_orders, vehicle_pool, delivery_log,
          pc, step, order_id, assignments, route>>

sidebar == <<num_vehicles, vehicle_speed, max_orders_per_vehicle,
             initial_orders, sim_speed>>

\* ---------------------------------------------------------------- helpers
Abs(x) == IF x < 0 THEN -x ELSE x

Range(s) == {s[i] : i \in DOMAIN s}

RECURSIVE SumSeq(_)
SumSeq(s) == IF s = <<>> THEN 0 ELSE Head(s) + SumSeq(Tail(s))

\* geodesic(loc1, loc2).km
geodesic_km(loc1, loc2) == Abs(loc1 - loc2)

\* timedelta(minutes = m), in clock units
timedelta_minutes(m) == m * SecondsPerMinute

\* travel_time_km gives minutes, (distance_km / vehicle_speed) * 60; every use
\* wraps it in timedelta(minutes=...), so it is kept here in clock units.
travel_time_km(loc1, loc2) ==
    (geodesic_km(loc1, loc2) * timedelta_minutes(60)) \div vehicle_speed

generate_random_order(i, location, size, priority, clock) ==
    [id |-> i,
     location |-> location,
     volume |-> size.volume,
     weight |-> size.weight,
     priority |-> priority,
     wait_time |-> IF priority = 1 THEN UrgentWait ELSE StandardWait,
     arrival_time |-> clock]

latest_delivery(order) ==
    order.arrival_time + timedelta_minutes(order.wait_time)

\* Variant: the travel time to the order is left out of the comparison.
can_reach_ignoring_travel(order, depot, vehicle_available_at) ==
    vehicle_available_at <= latest_delivery(order)

can_reach_in_time(order, depot, vehicle_available_at) ==
    vehicle_available_at + travel_time_km(depot, order.location)
        <= latest_delivery(order)

\* ------------------------------------------------------------ VRP solver
RECURSIVE Perms(_)
\* every visiting order of the set S of nodes
Perms(S) ==
    IF S = {} THEN {<<>>}
    ELSE UNION {{<<x>> \o p : p \in Perms(S \ {x})} : x \in S}

RECURSIVE RoutingsOverCap(_, _, _)
\* Variant: the OrderCount dimension lets one node too many on a route.
RoutingsOverCap(S, k, cap) ==
    IF k = 0 THEN (IF S = {} THEN {<<>>} ELSE {})
    ELSE UNION {{<<p>> \o rest : p \in Perms(T),
                                 rest \in RoutingsOverCap(S \ T, k - 1, cap)} :
                T \in {U \in SUBSET S : Cardinality(U) <= cap + 1}}

RECURSIVE RoutingsDropping(_, _, _)
\* Variant: nodes that fit on no route are dropped instead of failing the solve.
RoutingsDropping(S, k, cap) ==
    IF k = 0 THEN {<<>>}
    ELSE UNION {{<<p>> \o rest : p \in Perms(T),
                                 rest \in RoutingsDropping(S \ T, k - 1, cap)} :
                T \in {U \in SUBSET S : Cardinality(U) <= cap}}

RECURSIVE Routings(_, _, _)
\* What SolveWithParameters can return for the nodes S, k vehicles and the
\* OrderCount dimension of capacity cap: every node is on exactly one route
\* (no disjunction is declared, so no node may be dropped) and no route has
\* more than cap nodes.  The set is empty when no such routing exists.
Routings(S, k, cap) ==
    IF k = 0 THEN (IF S = {} THEN {<<>>} ELSE {})
    ELSE UNION {{<<p>> \o rest : p \in Perms(T),
                                 rest \in Routings(S \ T, k - 1, cap)} :
                T \in {U \in SUBSET S : Cardinality(U) <= cap}}

RECURSIVE ReadRoutesOneVehicle(_, _, _, _)
\* Variant: every route is paired with the first vehicle of the list.
ReadRoutesOneVehicle(solution, v_id, orders, vehicles) ==
    IF v_id > Len(vehicles) THEN <<>>
    ELSE LET nodes == solution[v_id]
             r == [i \in 1..Len(nodes) |-> orders[nodes[i]]]
             rest == ReadRoutesOneVehicle(solution, v_id + 1, orders, vehicles)
         IN IF r # <<>> THEN <<[vehicle |-> vehicles[1], route |-> r]>> \o rest
            ELSE rest

RECURSIVE ReadRoutes(_, _, _, _)
\* lines 95-104: one (vehicle, route) pair per vehicle with a non-empty route
ReadRoutes(solution, v_id, orders, vehicles) ==
    IF v_id > Len(vehicles) THEN <<>>
    ELSE LET nodes == solution[v_id]
             r == [i \in 1..Len(nodes) |-> orders[nodes[i]]]
             rest == ReadRoutes(solution, v_id + 1, orders, vehicles)
         IN IF r # <<>> THEN <<[vehicle |-> vehicles[v_id], route |-> r]>> \o rest
            ELSE rest

\* The set of lists assign_orders can return.  vehicles is a list of
\* positions in vehicle_pool (the code passes references to its dicts).
assign_orders(orders, vehicles) ==
    IF orders = <<>> \/ vehicles = <<>> THEN {<<>>}
    ELSE LET solutions == Routings(1..Len(orders), Len(vehicles),
                                   max_orders_per_vehicle)
         IN IF solutions = {} THEN {<<>>}
            ELSE {ReadRoutes(s, 1, orders, vehicles) : s \in solutions}

\* --------------------------------------------------------- simulation loop
RECURSIVE Filter(_, _)

\* Variant: the trip cap is tested with <= instead of <.
IsAvailableAtCap(v, clock) ==
    v.available_at <= clock /\ v.trip_count <= MaxTrips

\* Variant: available_at is not tested.
IsAvailableAnyTime(v, clock) == v.trip_count < MaxTrips

\* line 124
IsAvailable(v, clock) == v.available_at <= clock /\ v.trip_count < MaxTrips

RECURSIVE AvailableFrom(_, _, _)
AvailableFrom(pool, i, clock) ==
    IF i > Len(pool) THEN <<>>
    ELSE (IF IsAvailable(pool[i], clock) THEN <<i>> ELSE <<>>)
         \o AvailableFrom(pool, i + 1, clock)

available_vehicles(pool, clock) == AvailableFrom(pool, 1, clock)

\* line 125
Filter(orders, clock) ==
    IF orders = <<>> THEN <<>>
    ELSE (IF can_reach_in_time(Head(orders), DEPOT_LOCATION, clock)
          THEN <<Head(orders)>> ELSE <<>>)
         \o Filter(Tail(orders), clock)

valid_orders(orders, clock) == Filter(orders, clock)

\* line 129
total_route_minutes(orders_assigned) ==
    SumSeq([i \in 1..Len(orders_assigned) |->
               travel_time_km(DEPOT_LOCATION, orders_assigned[i].location)])

\* Variant: available_at is the route time alone, not counted from the clock.
CommitVehicleNoClock(v, orders_assigned, clock) ==
    [v EXCEPT !.available_at = total_route_minutes(orders_assigned),
              !.trip_count = v.trip_count + 1]

\* lines 130-131, for one pair of the assignments
CommitVehicle(v, orders_assigned, clock) ==
    [v EXCEPT !.available_at = clock + total_route_minutes(orders_assigned),
              !.trip_count = v.trip_count + 1]

AssignedTo(asg, i) == {a \in Range(asg) : a.vehicle = i}

RECURSIVE Commit(_, _, _)
\* lines 128-131, one pair of the assignments after the other
Commit(pool, asg, clock) ==
    IF asg = <<>> THEN pool
    ELSE LET a == Head(asg)
         IN Commit([pool EXCEPT ![a.vehicle] =
                        CommitVehicle(pool[a.vehicle], a.route, clock)],
                   Tail(asg), clock)

RECURSIVE NewRoutes(_, _)
\* orders_assigned of line 128, kept per vehicle
NewRoutes(rt, asg) ==
    IF asg = <<>> THEN rt
    ELSE NewRoutes([rt EXCEPT ![Head(asg).vehicle] = Head(asg).route], Tail(asg))

\* ------------------------------------------------------------------ Init
\* The state after the first run of the script: lines 19-31 have filled the
\* session state, the button has not been pressed.
Init ==
    /\ now = 0
    /\ \E c \in SidebarChoices :
         /\ num_vehicles = c.num_vehicles
         /\ vehicle_speed = c.vehicle_speed
         /\ max_orders_per_vehicle = c.max_orders_per_vehicle
         /\ initial_orders = c.initial_orders
         /\ sim_speed = c.sim_speed
    /\ all_orders = <<>>
    /\ vehicle_pool = [i \in 1..num_vehicles |->
                          [id |-> i, max_vol |-> MaxVol, max_weight |-> MaxWeight,
                           available_at |-> 0, trip_count |-> 0]]
    /\ delivery_log = <<>>
    /\ pc = "idle"
    /\ step = 0
    /\ order_id = 0
    /\ assignments = <<>>
    /\ route = [i \in 1..num_vehicles |-> <<>>]

\* --------------------------------------------------------------- actions
\* lines 108-113: the button is pressed; the initial orders are generated.
StartSimulation ==
    /\ pc \in {"idle", "rested"}
    /\ Len(all_orders) + initial_orders <= MaxPending
    /\ \E draws \in [1..initial_orders -> OrderDraws] :
         all_orders' = all_orders \o
            [i \in 1..initial_orders |->
                generate_random_order(i - 1, draws[i][1], draws[i][2],
                                      draws[i][3], now)]
    /\ order_id' = initial_orders
    /\ step' = 0
    /\ assignments' = <<>>
    /\ pc' = "running"
    /\ UNCHANGED <<now, sidebar, vehicle_pool, delivery_log, route>>

\* lines 114-134: one step of the loop, with or without a new order.
StepWith(orders, next_id) ==
    /\ pc = "running"
    /\ step < NumSteps
    /\ all_orders' = orders
    /\ order_id' = next_id
    /\ \E asg \in assign_orders(valid_orders(orders, now),
                                available_vehicles(vehicle_pool, now)) :
         /\ assignments' = asg
         /\ vehicle_pool' = Commit(vehicle_pool, asg, now)
         /\ route' = NewRoutes(route, asg)
    /\ now' = now + sim_speed
    /\ step' = step + 1
    /\ pc' = IF step + 1 = NumSteps THEN "idle" ELSE "running"
    /\ UNCHANGED <<sidebar, delivery_log>>

\* random.random() < 0.5: lines 118-121 run
StepNewOrder ==
    /\ Len(all_orders) < MaxPending
    /\ \E d \in OrderDraws :
         StepWith(Append(all_orders,
                         generate_random_order(order_id, d[1], d[2], d[3], now)),
                  order_id + 1)

\* random.random() >= 0.5
StepQuiet == StepWith(all_orders, order_id)

\* No script is running and time passes.  A further wait is taken only while
\* a vehicle is still away (otherwise two waits in a row are one wait).
Idle ==
    /\ \/ pc = "idle"
       \/ pc = "rested" /\ \E i \in DOMAIN vehicle_pool :
                               now < vehicle_pool[i].available_at
    /\ \E gap \in IdleGaps : now' = now + gap
    /\ pc' = "rested"
    /\ UNCHANGED <<sidebar, all_orders, vehicle_pool, delivery_log, step,
                   order_id, assignments, route>>

Next == StartSimulation \/ StepNewOrder \/ StepQuiet \/ Idle

Spec == Init /\ [][Next]_vars

\* ------------------------------------------------------- derived notions
Vehicles == DOMAIN vehicle_pool

\* The vehicle's trip is in progress: it is not back before available_at.
InTrip(i) == now < vehicle_pool[i].available_at

\* The status the availability test of line 124 gives a vehicle; the code
\* keeps no status field and has no third state.
Status(v, clock) == IF v.available_at <= clock THEN "Available" ELSE "Dispatched"

RouteVolume(r) == SumSeq([k \in 1..Len(r) |-> r[k].volume])
RouteWeight(r) == SumSeq([k \in 1..Len(r) |-> r[k].weight])
RouteIds(r) == {r[k].id : k \in 1..Len(r)}

\* The clock at which vehicle i was last committed (line 130 read backwards).
CommitTime(i) == vehicle_pool[i].available_at - total_route_minutes(route[i])

\* ----------------------------------------------------------------- claims

\* C1: for every vehicle, the volumes of the orders committed to its current
\* trip sum to at most max_vol and their weights to at most max_weight.
C1_CapacityInvariant ==
    \A i \in Vehicles :
        InTrip(i) =>
            /\ RouteVolume(route[i]) <= vehicle_pool[i].max_vol
            /\ RouteWeight(route[i]) <= vehicle_pool[i].max_weight

\* C2: the route committed to a vehicle never has more orders than
\* max_orders_per_vehicle.
C2_StopCountInvariant ==
    \A i \in Vehicles : Len(route[i]) <= max_orders_per_vehicle

\* A vehicle is on a trip whose route is exactly as long as the sidebar
\* allows, although more orders were pending when it was committed.
C2_Witness ==
    \E i \in Vehicles :
        /\ InTrip(i)
        /\ Len(route[i]) = max_orders_per_vehicle
        /\ \E o \in Range(all_orders) :
              o \notin Range(route[i]) /\ o.arrival_time <= CommitTime(i)

\* C3: no order id is on the routes of two vehicles whose trips are both in
\* progress.
C3_NoDoubleAssignment ==
    \A i, j \in Vehicles :
        (i # j /\ InTrip(i) /\ InTrip(j)) =>
            RouteIds(route[i]) \cap RouteIds(route[j]) = {}

\* C4: an order whose deadline has passed at the clock of a step is removed
\* from all_orders within that step, and the removal is logged.
C4_ExpiredOrdersRemoved ==
    [][pc = "running" =>
         \A o \in Range(all_orders) :
            now > latest_delivery(o) =>
               /\ o \notin Range(all_orders')
               /\ Len(delivery_log') > Len(delivery_log)]_vars

LegalStatusSteps ==
    {<<"Available", "Dispatched">>, <<"Dispatched", "Returning">>,
     <<"Returning", "Available">>}

\* C5: a vehicle's status only moves along Available -> Dispatched ->
\* Returning -> Available, and a vehicle is dispatched only from Available.
C5_StatusCycle ==
    [][\A i \in Vehicles :
         LET a == Status(vehicle_pool[i], now)
             b == Status(vehicle_pool'[i], now')
         IN /\ a # b => <<a, b>> \in LegalStatusSteps
            /\ vehicle_pool'[i].trip_count # vehicle_pool[i].trip_count
                  => a = "Available"]_vars

\* C6: a vehicle is committed in a step only if its available_at <= now and
\* its trip_count is below 3, and trip_count never exceeds 3.
C6_TripCap ==
    [][\A i \in Vehicles :
         /\ vehicle_pool'[i].trip_count <= 3
         /\ vehicle_pool'[i] # vehicle_pool[i] =>
               /\ vehicle_pool[i].available_at <= now
               /\ vehicle_pool[i].trip_count < 3]_vars

\* In a second run of the session (an order id is in all_orders twice) a step
\* is about to run with an order that can be reached and a vehicle that is
\* back at the depot but has made its three trips.
C6_Witness ==
    /\ pc = "running"
    /\ step < NumSteps
    /\ \E a, b \in DOMAIN all_orders : a # b /\ all_orders[a].id = all_orders[b].id
    /\ valid_orders(all_orders, now) # <<>>
    /\ \E i \in Vehicles :
          /\ vehicle_pool[i].trip_count = 3
          /\ vehicle_pool[i].available_at <= now

\* now + travelTime(depot, o.location) <= o.arrival_time + o.wait_time
ReachableAt(o, clock) ==
    clock + travel_time_km(DEPOT_LOCATION, o.location)
        <= o.arrival_time + timedelta_minutes(o.wait_time)

\* C7: every order on a route committed in a step can be reached from the
\* depot before its deadline at the clock of that step; an order that cannot
\* is on no route committed in the step and stays in all_orders.
C7_DispatchedAreFeasible ==
    [][pc = "running" =>
         /\ \A i \in Vehicles :
               vehicle_pool'[i].trip_count # vehicle_pool[i].trip_count =>
                  \A o \in Range(route'[i]) : ReachableAt(o, now)
         /\ \A o \in Range(all_orders') :
               ~ReachableAt(o, now) =>
                  \A k \in DOMAIN assignments' : o \notin Range(assignments'[k].route)
         /\ \A o \in Range(all_orders) :
               ~ReachableAt(o, now) => o \in Range(all_orders')]_vars

\* A vehicle is on a trip that was committed while an order that could not
\* be reached in time was pending, and that order is not on its route.
C7_Witness ==
    \E i \in Vehicles :
        /\ InTrip(i)
        /\ route[i] # <<>>
        /\ \E o \in Range(all_orders) :
              /\ o.arrival_time <= CommitTime(i)
              /\ ~ReachableAt(o, CommitTime(i))
              /\ o \notin Range(route[i])

\* The assignment breaks the capacity the vehicle declares.
ExceedsCapacity(a, v) ==
    \/ RouteVolume(a.route) > v.max_vol
    \/ RouteWeight(a.route) > v.max_weight
    \/ Len(a.route) > max_orders_per_vehicle

\* C8: an assignment that exceeds the vehicle's declared capacity is not
\* committed: the vehicle is unchanged, the orders stay pending and a log
\* entry is written.
C8_OverCapacityRefused ==
    [][pc = "running" =>
         \A k \in DOMAIN assignments' :
            LET a == assignments'[k] IN
            ExceedsCapacity(a, vehicle_pool[a.vehicle]) =>
               /\ vehicle_pool'[a.vehicle] = vehicle_pool[a.vehicle]
               /\ Range(a.route) \subseteq Range(all_orders')
               /\ Len(delivery_log') > Len(delivery_log)]_vars

\* C9: when a vehicle is available and the feasible orders fit on the
\* available vehicles, every feasible order is on exactly one committed
\* route after the step and is no longer in all_orders.
C9_FeasibleAllDispatched ==
    [][LET valid == valid_orders(all_orders', now)
           free == available_vehicles(vehicle_pool, now)
       IN (pc = "running" /\ Len(free) >= 1
              /\ Len(valid) <= Len(free) * max_orders_per_vehicle) =>
             \A o \in Range(valid) :
                /\ Cardinality({k \in DOMAIN assignments' :
                                   o \in Range(assignments'[k].route)}) = 1
                /\ o \notin Range(all_orders')]_vars

\* Every vehicle has available_at > clock or has made three trips.
NoVehicleFree(clock) ==
    \A i \in Vehicles :
        vehicle_pool[i].available_at > clock \/ vehicle_pool[i].trip_count >= 3

\* C10: in a step where no vehicle is available or no pending order is
\* feasible, no vehicle changes and every feasible pending order stays.
C10_NoDispatch ==
    [][(pc = "running"
          /\ (NoVehicleFree(now)
                \/ \A o \in Range(all_orders') : ~ReachableAt(o, now))) =>
         /\ vehicle_pool' = vehicle_pool
         /\ \A o \in Range(all_orders) :
               ReachableAt(o, now) => o \in Range(all_orders')]_vars

\* A step has just run (at the clock now - sim_speed) in which an order could
\* be reached in time but every vehicle was away or had made its trips.
C10_Witness ==
    /\ pc = "running"
    /\ step >= 1
    /\ assignments = <<>>
    /\ NoVehicleFree(now - sim_speed)
    /\ \E i \in Vehicles : vehicle_pool[i].available_at > now - sim_speed
    /\ \E o \in Range(all_orders) :
          o.arrival_time <= now - sim_speed /\ ReachableAt(o, now - sim_speed)

\* C11: no two orders of all_orders have the same id.
C11_UniqueOrderIds ==
    \A a, b \in DOMAIN all_orders :
        a # b => all_orders[a].id # all_orders[b].id

\* C12: the orders of an assignment committed in a step are removed from
\* all_orders by that step.
C12_CommittedOrdersRemoved ==
    [][pc = "running" =>
         \A k \in DOMAIN assignments' :
            \A o \in Range(assignments'[k].route) : o \notin Range(all_orders')]_vars

RECURSIVE LegsFrom(_, _)
\* Sum of the leg travel times from the location from along the orders of r.
LegsFrom(from, r) ==
    IF r = <<>> THEN 0
    ELSE travel_time_km(from, Head(r).location)
            + LegsFrom(Head(r).location, Tail(r))

\* routeDuration: depot -> o1 -> o2 -> ... -> ok
RouteDuration(r) == LegsFrom(DEPOT_LOCATION, r)

\* C13: a commit sets available_at to now + routeDuration, the sum of the
\* consecutive legs of the route, and adds exactly 1 to trip_count.
C13_AvailableAtIsRouteDuration ==
    [][pc = "running" =>
         \A k \in DOMAIN assignments' :
            LET a == assignments'[k] IN
            /\ vehicle_pool'[a.vehicle].available_at = now + RouteDuration(a.route)
            /\ vehicle_pool'[a.vehicle].trip_count
                  = vehicle_pool[a.vehicle].trip_count + 1]_vars

\* C14: a vehicle that has made a trip is committed again only when more than
\* the delivery time of that trip has passed (a return time has elapsed too).
C14_ReturnLegBeforeReuse ==
    [][\A i \in Vehicles :
         (vehicle_pool[i].trip_count >= 1
            /\ vehicle_pool'[i].trip_count # vehicle_pool[i].trip_count)
         => now > vehicle_pool[i].available_at]_vars

\* C15: when more orders are feasible than the available vehicles can take,
\* assign_orders returns the empty list: the step changes no vehicle and
\* removes no order, and the orders that are still feasible at the next step
\* are offered to the solver again.
C15_NoSolutionNoChange ==
    [][LET feasible == {o \in Range(all_orders') : ReachableAt(o, now)}
           free == {i \in Vehicles : vehicle_pool[i].available_at <= now
                                       /\ vehicle_pool[i].trip_count < MaxTrips}
       IN (pc = "running" /\ free # {}
              /\ Cardinality(feasible) > Cardinality(free) * max_orders_per_vehicle)
          => /\ assignments' = <<>>
             /\ vehicle_pool' = vehicle_pool
             /\ Range(all_orders) \subseteq Range(all_orders')
             /\ \A o \in feasible :
                   ReachableAt(o, now') =>
                      o \in Range(valid_orders(all_orders', now'))]_vars

\* A step has just run (at the clock now - sim_speed) with a vehicle free and
\* more feasible orders than the free vehicles could take; nothing was
\* committed.
C15_Witness ==
    /\ pc = "running"
    /\ step >= 1
    /\ assignments = <<>>
    /\ LET then == now - sim_speed
           feasible == {o \in Range(all_orders) :
                           o.arrival_time <= then /\ ReachableAt(o, then)}
           free == {i \in Vehicles : vehicle_pool[i].available_at <= then
                                       /\ vehicle_pool[i].trip_count < MaxTrips}
       IN /\ free # {}
          /\ Cardinality(feasible) > Cardinality(free) * max_orders_per_vehicle

\* C16: within one step a vehicle receives at most one assignment, its
\* trip_count grows by at most 1, and no order is on two of the assignments
\* committed in the step.
C16_OneAssignmentPerStep ==
    [][pc = "running" =>
         /\ \A i \in Vehicles :
               /\ Cardinality({k \in DOMAIN assignments' :
                                  assignments'[k].vehicle = i}) <= 1
               /\ vehicle_pool'[i].trip_count - vehicle_pool[i].trip_count
                     \in {0, 1}
         /\ \A k, l \in DOMAIN assignments' :
               k # l => Range(assignments'[k].route)
                           \cap Range(assignments'[l].route) = {}]_vars

\* The last step committed two vehicles at once.
C16_Witness ==
    /\ step >= 1
    /\ Len(assignments) = 2
    /\ assignments[1].vehicle # assignments[2].vehicle

\* The session with the sidebar set to two vehicles of one stop each.
OneStopInit == Init /\ num_vehicles = 2 /\ max_orders_per_vehicle = 1

\* The loop goes on while the script runs, and time passes while it does not;
\* pressing the button is left to the user.
FairSpec ==
    /\ OneStopInit
    /\ [][Next]_vars
    /\ WF_vars(StepNewOrder \/ StepQuiet)
    /\ WF_vars(Idle)

\* Every position a vehicle can have in a pool.
FleetPositions == UNION {1..c.num_vehicles : c \in SidebarChoices}

\* C17: a vehicle that is away and has made fewer than three trips is
\* eventually selectable again: available_at <= now with trip_count below 3.
C17_VehicleReused ==
    \A i \in FleetPositions :
        (i \in Vehicles /\ InTrip(i) /\ vehicle_pool[i].trip_count < MaxTrips)
            ~> (i \in Vehicles /\ vehicle_pool[i].available_at <= now
                   /\ vehicle_pool[i].trip_count < MaxTrips)

\* A vehicle that has been dispatched is back and a step is about to run in
\* which line 124 selects it again.
C17_Witness ==
    /\ pc = "running"
    /\ step < NumSteps
    /\ \E i \in Vehicles :
          /\ route[i] # <<>>
          /\ vehicle_pool[i].trip_count \in {1, 2}
          /\ vehicle_pool[i].available_at <= now

\* C18: on a committed route every order is reached, along the consecutive
\* legs of the route, no later than its deadline.
C18_RouteMeetsDeadlines ==
    [][pc = "running" =>
         \A k \in DOMAIN assignments' :
            LET r == assignments'[k].route IN
            \A n \in 1..Len(r) :
               now + RouteDuration(SubSeq(r, 1, n))
                  <= r[n].arrival_time + timedelta_minutes(r[n].wait_time)]_vars

\* C19: available_at and trip_count of a vehicle never decrease, the ids (and
\* the size) of the pool never change, and a step changes only the
\* available_at and trip_count of the vehicles it commits.
C19_PoolMonotone ==
    [][/\ DOMAIN vehicle_pool' = DOMAIN vehicle_pool
       /\ \A i \in Vehicles :
             /\ vehicle_pool'[i].id = vehicle_pool[i].id
             /\ vehicle_pool'[i].max_vol = vehicle_pool[i].max_vol
             /\ vehicle_pool'[i].max_weight = vehicle_pool[i].max_weight
             /\ vehicle_pool'[i].available_at >= vehicle_pool[i].available_at
             /\ vehicle_pool'[i].trip_count >= vehicle_pool[i].trip_count
             /\ (\A k \in DOMAIN assignments' : assignments'[k].vehicle # i)
                   => vehicle_pool'[i] = vehicle_pool[i]]_vars

\* One vehicle of two has just been committed to its second or third trip
\* while the other, away, was left as it was.
C19_Witness ==
    /\ step >= 1
    /\ Len(assignments) = 1
    /\ Len(vehicle_pool) = 2
    /\ vehicle_pool[assignments[1].vehicle].trip_count >= 2
    /\ \E i \in Vehicles : i # assignments[1].vehicle /\ InTrip(i)
====
